---- MODULE Spec2Model ----
(***************************************************************************)
(* The two scaffolding Makefiles of the repository (the JavaScript variant *)
(* react_redux_boilerplate/Makefile and the TypeScript variant), run by    *)
(* make: targets, their recipe lines, the shell's rules for && and |, and  *)
(* the effect of every recipe line on the file system.                     *)
(***************************************************************************)
EXTENDS Integers, Sequences, FiniteSets, TLC

VARIABLES
    variant,     \* which Makefile is run: "js" or "ts"
    fragment,    \* content of ../prettier-config.json in the invocation root
    fs,          \* directory -> <<>> (no $(NAME) there) or <<project tree>>
    status,      \* "idle" (no make running) or "run"
    goal,        \* the target given on the command line
    pd,          \* the value of PARENT_DIR
    todo,        \* the targets make has to update, in order (goal last)
    tstate,      \* per target: "pending", "running", "done", "failed"
    lineNo,      \* per target: the next recipe line
    running,     \* the targets whose recipe line is executing in a shell
    failedAt,    \* <<target index, tool>>: processes that exited non-zero
    toolFault,   \* some external tool broke its contract in this run
    startOrder,  \* the targets of this run in the order they were started
    output,      \* the lines echoed by this run
    exit,        \* "none", "ok" (status 0) or "fail" (status 2)
    nruns,       \* number of make invocations so far
    fs0,         \* the file system when this run started
    prev,        \* goal and exit of the run before this one
    jqIn         \* <<[m, f]>>: the two inputs the last jq run read

vars == <<variant, fragment, fs, status, goal, pd, todo, tstate, lineNo, running,
          failedAt, toolFault, startOrder, output, exit, nruns, fs0, prev, jqIn>>

(***************************************************************************)
(* Bounds                                                                  *)
(***************************************************************************)
MaxRuns == 3
MaxAtom == 2

(***************************************************************************)
(* Parameters                                                              *)
(***************************************************************************)
Variants == {"js", "ts"}
\* make -j2
JobsTwo == 1 + 1
\* make runs one recipe at a time: the documented command line gives no -j
Jobs == 1
ParentDirs == {".", "out"}
Root == "."
CommitMessage == "Initial setup of Redux and friends"

(***************************************************************************)
(* JSON values: atoms, objects, and the two non-JSON file contents          *)
(***************************************************************************)
Atom(n) == [k |-> "atom", v |-> n]
Obj(f) == [k |-> "obj", f |-> f]
EmptyFile == [k |-> "empty"]
NoFile == [k |-> "missing"]
Malformed == [k |-> "malformed"]
IsObj(j) == j.k = "obj"

\* jq's `+` on objects: keys of both, the right one wins
JqAdd(a, b) ==
    Obj([key \in DOMAIN a.f \cup DOMAIN b.f |->
            IF key \in DOMAIN b.f THEN b.f[key] ELSE a.f[key]])

\* jq's `*` on objects: as `+`, but two object values are merged recursively
RECURSIVE JqMul(_, _)
JqMul(a, b) ==
    Obj([key \in DOMAIN a.f \cup DOMAIN b.f |->
            IF key \notin DOMAIN b.f THEN a.f[key]
            ELSE IF key \notin DOMAIN a.f THEN b.f[key]
            ELSE IF IsObj(a.f[key]) /\ IsObj(b.f[key])
                 THEN JqMul(a.f[key], b.f[key])
                 ELSE b.f[key]])

\* the filter '.[0] + .[1]': a shallow merge
JqFilterAdd(m, f) == JqAdd(m, f)
\* the filter '.[0] * .[1]' on the slurped inputs
JqFilter(m, f) == JqMul(m, f)

\* jq -s FILTER package.json ../prettier-config.json: <<result>>, or <<>> and a
\* non-zero status when an input is not a JSON object
Jq(m, f) ==
    IF IsObj(m) /\ IsObj(f) THEN [out |-> <<JqFilter(m, f)>>, st |-> 0]
                            ELSE [out |-> <<>>, st |-> 2]

\* sponge FILE: soak up stdin, then write it to FILE; status 0
Sponge(in) == [content |-> IF in = <<>> THEN EmptyFile ELSE in[1], st |-> 0]

\* sh without pipefail: the status of a pipeline is that of its last command
PipeStatus(first, last) == last

\* npm install PKGS: adds the packages to the manifest's dependencies
NpmInstall(m, pkgs) ==
    LET old == IF "dependencies" \in DOMAIN m.f /\ IsObj(m.f["dependencies"])
               THEN m.f["dependencies"].f ELSE <<>>
        new == [p \in DOMAIN old \cup pkgs |->
                   IF p \in DOMAIN old THEN old[p] ELSE Atom(1)]
    IN  Obj([key \in DOMAIN m.f \cup {"dependencies"} |->
                IF key = "dependencies" THEN Obj(new) ELSE m.f[key]])

(***************************************************************************)
(* The project tree $(NAME) and its repository                             *)
(***************************************************************************)
NoRepo == [init |-> FALSE, staged |-> <<>>, commits |-> <<>>]

\* what mkdir -p leaves when $(NAME) did not exist: a directory, nothing in it
EmptyDir == [manifest |-> NoFile, files |-> <<>>, dirs |-> {}, hook |-> FALSE,
             git |-> NoRepo]

\* a template file is copied verbatim: its content is named after the file
Content(src) == <<src>>

Ext(v) == IF v = "ts" THEN "tsx" ELSE "js"

\* what the skeleton generator leaves: a manifest and the default sources
Skeleton(v) ==
    [manifest |-> Obj(("name" :> Atom(1)) @@
                      ("dependencies" :> Obj("react" :> Atom(1)))),
     files |-> (<<"src", "App." \o Ext(v)>> :> <<"cra">>) @@
               (<<"src", "index." \o Ext(v)>> :> <<"cra">>) @@
               (<<"src", "index.css">> :> <<"cra">>),
     dirs |-> {<<"src">>},
     hook |-> FALSE,
     git |-> NoRepo]

\* what git tracks of a project: its files (not its empty directories)
Tree(p) == [manifest |-> p.manifest, files |-> p.files, hook |-> p.hook]

Prefixes(path) == {SubSeq(path, 1, n) : n \in 1..Len(path)}
Parent(path) == SubSeq(path, 1, Len(path) - 1)

(***************************************************************************)
(* The recipes                                                             *)
(***************************************************************************)
\* a recipe line: the command, a file or text, a path in $(NAME), other words
L(op, a, b, args) == [op |-> op, a |-> a, b |-> b, args |-> args]

Targets == {"create-react-app", "configure-prettier", "install-bootstrap",
            "install-redux", "install-router", "install-styled-components",
            "copy-files", "git-commit", "build"}

Installs == {"install-bootstrap", "install-redux", "install-router",
             "install-styled-components"}

CopyFilesJs ==
    << L("mkdir", "", <<"src", "components">>, {}),
       L("mkdir", "", <<"src", "actions">>, {}),
       L("mkdir", "", <<"src", "reducers">>, {}),
       L("cp", "boilerplate-action.js", <<"src", "actions", "index.js">>, {}),
       L("cp", "boilerplate-reducer.js", <<"src", "reducers", "index.js">>, {}),
       L("cp", "boilerplate-app.js", <<"src", "App.js">>, {}),
       L("cp", "boilerplate-index.js", <<"src", "index.js">>, {}) >>

CopyFilesTs ==
    << L("mkdir", "", <<"src", "components">>, {}),
       L("mkdir", "", <<"src", "app">>, {}),
       L("cp", "boilerplate-store.ts", <<"src", "app", "store.tsx">>, {}),
       L("cp", "boilerplate-hooks.ts", <<"src", "app", "hooks.tsx">>, {}),
       L("cp", "boilerplate-app.tsx", <<"src", "App.tsx">>, {}),
       L("cp", "boilerplate-index.tsx", <<"src", "index.tsx">>, {}) >>

GitCommitRecipe(v) ==
    << L("mv", "", <<>>, IF v = "js" THEN {"-r"} ELSE {}),
       L("git-init", "", <<>>, {}),
       L("git-add", "", <<>>, {}),
       L("git-commit", CommitMessage, <<>>, {}) >>

ConfigurePrettier ==
    << L("prettier", "", <<>>, {"husky", "lint-staged", "prettier"}),
       L("husky", "", <<>>, {}) >>

InstallPkgs(v, t) ==
    CASE t = "install-bootstrap" -> {"react-bootstrap", "bootstrap"}
      [] t = "install-redux" ->
            IF v = "js" THEN {"redux", "react-redux"}
            ELSE {"redux", "react-redux", "@reduxjs/toolkit",
                  "redux-devtools-extension"}
      [] t = "install-router" -> {"react-router-dom"}
      [] t = "install-styled-components" -> {"styled-components"}

Recipe(v, t) ==
    CASE t = "create-react-app" -> << L("cra", "", <<>>, {}) >>
      [] t = "configure-prettier" -> ConfigurePrettier
      [] t \in Installs -> << L("npm", "", <<>>, InstallPkgs(v, t)) >>
      [] t = "copy-files" -> IF v = "js" THEN CopyFilesJs ELSE CopyFilesTs
      [] t = "git-commit" -> GitCommitRecipe(v)
      [] t = "build" -> << L("echo", "success", <<>>, {}) >>

\* a rule listing the prerequisites in another order
PrereqsSwapped(v, t) ==
    IF t # "build" THEN <<>>
    ELSE IF v = "js"
    THEN <<"create-react-app", "install-redux", "configure-prettier",
           "install-router", "install-bootstrap", "install-styled-components",
           "copy-files", "git-commit">>
    ELSE <<"create-react-app", "install-redux", "install-router",
           "copy-files", "install-bootstrap", "install-styled-components",
           "git-commit">>
\* the prerequisites of a target, in the order the rule lists them
Prereqs(v, t) ==
    IF t # "build" THEN <<>>
    ELSE IF v = "js"
    THEN <<"create-react-app", "configure-prettier", "install-redux",
           "install-router", "install-bootstrap", "install-styled-components",
           "copy-files", "git-commit">>
    ELSE <<"create-react-app", "install-redux", "install-router",
           "install-bootstrap", "install-styled-components", "copy-files",
           "git-commit">>

(***************************************************************************)
(* The effect of one recipe line.  f is the file system, d the value of    *)
(* PARENT_DIR, ok whether the line's external tool (npx, npm, git) works;  *)
(* the result gives the new file system, the exit status the shell hands   *)
(* to make, the processes that exited non-zero, and what was printed.      *)
(***************************************************************************)
Res(f, st, failed) ==
    [fs |-> f, st |-> st, failed |-> failed, out |-> <<>>, jq |-> <<>>]

Fallible == {"cra", "npm", "prettier", "husky", "git-init", "git-add",
             "git-commit"}

\* /usr/bin/npx create-react-app $(NAME) --use-npm
Cra(v, f, ok) ==
    IF f[Root] # <<>> \/ ~ok THEN Res(f, 1, {"npx"})
    ELSE Res([f EXCEPT ![Root] = <<Skeleton(v)>>], 0, {})

\* cd $(NAME) && npm install PKGS
Npm(f, pkgs, ok) ==
    IF f[Root] = <<>> THEN Res(f, 1, {"cd"})
    ELSE IF ~ok \/ ~IsObj(f[Root][1].manifest) THEN Res(f, 1, {"npm"})
    ELSE Res([f EXCEPT ![Root][1].manifest = NpmInstall(@, pkgs)], 0, {})

\* cd $(NAME) && npm install PKGS && jq -s '.[0] * .[1]' package.json
\*    ../prettier-config.json | sponge package.json
Prettier(f, frag, pkgs, ok) ==
    LET n == Npm(f, pkgs, ok)
    IN  IF n.st # 0 THEN n
        ELSE LET m1 == n.fs[Root][1].manifest
                 j == Jq(m1, frag)
                 s == Sponge(j.out)
             IN  [fs |-> [n.fs EXCEPT ![Root][1].manifest = s.content],
                  st |-> PipeStatus(j.st, s.st),
                  failed |-> IF j.st # 0 THEN {"jq"} ELSE {},
                  out |-> <<>>,
                  jq |-> <<[m |-> m1, f |-> frag]>>]

\* cd $(NAME) && /usr/bin/npx husky add .husky/pre-commit "npx lint-staged"
Husky(f, ok) ==
    IF f[Root] = <<>> THEN Res(f, 1, {"cd"})
    ELSE IF ~ok THEN Res(f, 1, {"npx"})
    ELSE Res([f EXCEPT ![Root][1].hook = TRUE], 0, {})

\* mkdir without -p: fails on an existing directory or a missing parent
MkdirPlain(f, path) ==
    LET p == IF f[Root] = <<>> THEN EmptyDir ELSE f[Root][1]
    IN  IF f[Root] = <<>> \/ path \in p.dirs
           \/ (Len(path) > 1 /\ Parent(path) \notin p.dirs)
        THEN Res(f, 1, {"mkdir"})
        ELSE Res([f EXCEPT ![Root] = <<[p EXCEPT !.dirs = @ \cup {path}]>>], 0, {})
\* mkdir -p $(NAME)/PATH: the directory and every missing parent, $(NAME) too
Mkdir(f, path) ==
    LET p == IF f[Root] = <<>> THEN EmptyDir ELSE f[Root][1]
    IN  Res([f EXCEPT ![Root] = <<[p EXCEPT !.dirs = @ \cup Prefixes(path)]>>],
            0, {})

\* cat SRC >> $(NAME)/DST: adds to DST's content
CpAppend(f, src, dst) ==
    IF f[Root] = <<>> \/ (Len(dst) > 1 /\ Parent(dst) \notin f[Root][1].dirs)
    THEN Res(f, 1, {"cp"})
    ELSE LET old == IF dst \in DOMAIN f[Root][1].files
                    THEN f[Root][1].files[dst] ELSE <<>>
         IN  Res([f EXCEPT ![Root][1].files = (dst :> (old \o Content(src))) @@ @],
                 0, {})
\* cp SRC $(NAME)/DST: needs the directory of DST; replaces DST's content
Cp(f, src, dst) ==
    IF f[Root] = <<>> \/ (Len(dst) > 1 /\ Parent(dst) \notin f[Root][1].dirs)
    THEN Res(f, 1, {"cp"})
    ELSE Res([f EXCEPT ![Root][1].files = (dst :> Content(src)) @@ @], 0, {})

\* the options mv knows; any other is a usage error
MvOptions == {"-f", "-i", "-n", "-u", "-v", "-T"}

\* mv FLAGS $(NAME) $(PARENT_DIR): fails on an unknown option, on a missing
\* source, when source and destination are the same directory, and when the
\* destination holds a non-empty directory of that name
Mv(f, flags, d) ==
    IF ~(flags \subseteq MvOptions) \/ f[Root] = <<>> \/ d = Root \/ f[d] # <<>>
    THEN Res(f, 1, {"mv"})
    ELSE Res([f EXCEPT ![d] = f[Root], ![Root] = <<>>], 0, {})

\* cd $(PARENT_DIR)/$(NAME) && git init
GitInit(f, d, ok) ==
    IF f[d] = <<>> THEN Res(f, 1, {"cd"})
    ELSE IF ~ok THEN Res(f, 1, {"git"})
    ELSE Res([f EXCEPT ![d][1].git.init = TRUE], 0, {})

\* git add src .husky: stages everything but the manifest
GitAddSrc(f, d, ok) ==
    IF f[d] = <<>> THEN Res(f, 1, {"cd"})
    ELSE IF ~ok \/ ~f[d][1].git.init THEN Res(f, 1, {"git"})
    ELSE Res([f EXCEPT ![d][1].git.staged =
                  <<[Tree(f[d][1]) EXCEPT !.manifest = NoFile]>>], 0, {})
\* cd $(PARENT_DIR)/$(NAME) && git add .
GitAdd(f, d, ok) ==
    IF f[d] = <<>> THEN Res(f, 1, {"cd"})
    ELSE IF ~ok \/ ~f[d][1].git.init THEN Res(f, 1, {"git"})
    ELSE Res([f EXCEPT ![d][1].git.staged = <<Tree(f[d][1])>>], 0, {})

\* cd $(PARENT_DIR)/$(NAME) && git commit -m"..."
GitCommit(f, d, msg, ok) ==
    IF f[d] = <<>> THEN Res(f, 1, {"cd"})
    ELSE LET g == f[d][1].git
         IN  IF ~ok \/ ~g.init \/ g.staged = <<>>
                \/ (g.commits # <<>> /\ g.commits[Len(g.commits)].tree = g.staged[1])
             THEN Res(f, 1, {"git"})
             ELSE Res([f EXCEPT ![d][1].git.commits =
                           Append(@, [msg |-> msg, tree |-> g.staged[1]])], 0, {})

\* @echo TEXT
Echo(f, text) == [Res(f, 0, {}) EXCEPT !.out = <<text>>]

Exec(v, ln, f, d, frag, ok) ==
    CASE ln.op = "cra" -> Cra(v, f, ok)
      [] ln.op = "npm" -> Npm(f, ln.args, ok)
      [] ln.op = "prettier" -> Prettier(f, frag, ln.args, ok)
      [] ln.op = "husky" -> Husky(f, ok)
      [] ln.op = "mkdir" -> Mkdir(f, ln.b)
      [] ln.op = "cp" -> Cp(f, ln.a, ln.b)
      [] ln.op = "mv" -> Mv(f, ln.args, d)
      [] ln.op = "git-init" -> GitInit(f, d, ok)
      [] ln.op = "git-add" -> GitAdd(f, d, ok)
      [] ln.op = "git-commit" -> GitCommit(f, d, ln.a, ok)
      [] ln.op = "echo" -> Echo(f, ln.a)

(***************************************************************************)
(* make                                                                    *)
(***************************************************************************)
\* make -i: the status of a recipe line is ignored
HaltsNever(st) == FALSE
\* a recipe line that exits non-zero ends the run (no `-` prefix, no -k, no -i)
Halts(st) == st # 0

NoFailure == \A j \in 1..Len(todo) : tstate[j] # "failed"
AllDone == \A j \in 1..Len(todo) : tstate[j] = "done"
InRecipe == {j \in 1..Len(todo) : tstate[j] = "running"}

\* make GOAL NAME=... PARENT_DIR=d
Invoke(g, d) ==
    /\ status = "idle"
    /\ nruns < MaxRuns
    /\ status' = "run"
    /\ goal' = g
    /\ pd' = d
    /\ todo' = Prereqs(variant, g) \o <<g>>
    /\ tstate' = [i \in 1..Len(todo') |-> "pending"]
    /\ lineNo' = [i \in 1..Len(todo') |-> 1]
    /\ running' = {}
    /\ failedAt' = {}
    /\ toolFault' = FALSE
    /\ startOrder' = <<>>
    /\ output' = <<>>
    /\ exit' = "none"
    /\ nruns' = nruns + 1
    /\ fs0' = fs
    /\ prev' = [goal |-> goal, exit |-> exit]
    /\ UNCHANGED <<variant, fragment, fs, jqIn>>

\* make hands the next recipe line to a shell: the next line of a recipe under
\* way, or the first line of the first target not yet started, the goal itself
\* only once its prerequisites are made
StartLine(i) ==
    /\ status = "run"
    /\ i \in 1..Len(todo)
    /\ i \notin running
    /\ NoFailure
    /\ \/ tstate[i] = "running"
       \/ /\ tstate[i] = "pending"
          /\ Cardinality(InRecipe) < Jobs
          /\ \A j \in 1..(i - 1) : tstate[j] # "pending"
          /\ i = Len(todo) => \A j \in 1..(i - 1) : tstate[j] = "done"
    /\ running' = running \cup {i}
    /\ startOrder' = IF tstate[i] = "pending" THEN Append(startOrder, todo[i])
                     ELSE startOrder
    /\ tstate' = [tstate EXCEPT ![i] = "running"]
    /\ UNCHANGED <<variant, fragment, fs, status, goal, pd, todo, lineNo, failedAt,
                   toolFault, output, exit, nruns, fs0, prev, jqIn>>

\* the shell of a recipe line exits
ExitLine(i) ==
    /\ i \in running
    /\ LET rec == Recipe(variant, todo[i])
           ln == rec[lineNo[i]]
       IN  \E ok \in (IF ln.op \in Fallible THEN BOOLEAN ELSE {TRUE}) :
              LET r == Exec(variant, ln, fs, pd, fragment, ok)
              IN  /\ fs' = r.fs
                  /\ running' = running \ {i}
                  /\ failedAt' = failedAt \cup {<<i, t>> : t \in r.failed}
                  /\ toolFault' = (toolFault \/ ~ok)
                  /\ output' = output \o r.out
                  /\ jqIn' = IF r.jq # <<>> THEN r.jq ELSE jqIn
                  /\ IF Halts(r.st)
                     THEN /\ tstate' = [tstate EXCEPT ![i] = "failed"]
                          /\ lineNo' = lineNo
                     ELSE /\ tstate' = [tstate EXCEPT ![i] =
                                 IF lineNo[i] = Len(rec) THEN "done" ELSE "running"]
                          /\ lineNo' = [lineNo EXCEPT ![i] = @ + 1]
    /\ UNCHANGED <<variant, fragment, status, goal, pd, todo, startOrder, exit,
                   nruns, fs0, prev>>

\* make exits: 0 when the goal is made, 2 after a failed recipe line
Finish ==
    /\ status = "run"
    /\ running = {}
    /\ AllDone \/ ~NoFailure
    /\ status' = "idle"
    /\ exit' = IF AllDone THEN "ok" ELSE "fail"
    /\ UNCHANGED <<variant, fragment, fs, goal, pd, todo, tstate, lineNo, running,
                   failedAt, toolFault, startOrder, output, nruns, fs0, prev, jqIn>>

\* the formatting fragment of the main specification
Fragment ==
    Obj(("prettier" :> Obj("semi" :> Atom(1))) @@
        ("lint-staged" :> Obj("src" :> Atom(1))))

Init ==
    /\ variant \in Variants
    /\ fragment \in {Fragment, Malformed}
    /\ fs = [d \in ParentDirs |-> <<>>]
    /\ status = "idle"
    /\ goal = ""
    /\ pd = Root
    /\ todo = <<>>
    /\ tstate = <<>>
    /\ lineNo = <<>>
    /\ running = {}
    /\ failedAt = {}
    /\ toolFault = FALSE
    /\ startOrder = <<>>
    /\ output = <<>>
    /\ exit = "none"
    /\ nruns = 0
    /\ fs0 = fs
    /\ prev = [goal |-> "", exit |-> "none"]
    /\ jqIn = <<>>

Next ==
    \/ \E g \in Targets, d \in ParentDirs : Invoke(g, d)
    \/ \E i \in 1..Len(todo) : StartLine(i)
    \/ \E i \in 1..Len(todo) : ExitLine(i)
    \/ Finish

Spec == Init /\ [][Next]_vars

(***************************************************************************)
(* The merge alone: configure-prettier run on every manifest and fragment  *)
(* over a small set of keys and atoms                                      *)
(***************************************************************************)
Keys == {"a", "b"}
Atoms == {Atom(n) : n \in 1..MaxAtom}
PartialFns(S, V) == UNION {[D -> V] : D \in SUBSET S}
Objs1 == {Obj(f) : f \in PartialFns(Keys, Atoms)}
Objs2 == {Obj(f) : f \in PartialFns(Keys, Atoms \cup Objs1)}

InitMerge ==
    /\ variant = "js"
    /\ fragment \in Objs2
    /\ \E m \in Objs2 :
          fs = [d \in ParentDirs |->
                   IF d = Root THEN <<[Skeleton(variant) EXCEPT !.manifest = m]>>
                   ELSE <<>>]
    /\ status = "run"
    /\ goal = "configure-prettier"
    /\ pd = Root
    /\ todo = <<"configure-prettier">>
    /\ tstate = <<"pending">>
    /\ lineNo = <<1>>
    /\ running = {}
    /\ failedAt = {}
    /\ toolFault = FALSE
    /\ startOrder = <<>>
    /\ output = <<>>
    /\ exit = "none"
    /\ nruns = 1
    /\ fs0 = fs
    /\ prev = [goal |-> "", exit |-> "none"]
    /\ jqIn = <<>>

NextMerge ==
    \/ \E i \in 1..Len(todo) : StartLine(i)
    \/ \E i \in 1..Len(todo) : ExitLine(i)
    \/ Finish

SpecMerge == InitMerge /\ [][NextMerge]_vars

(***************************************************************************)
(* Properties                                                              *)
(***************************************************************************)
IsBuild == goal = "build"
Ended == status = "idle" /\ exit # "none"
Idx(t) == {i \in 1..Len(todo) : todo[i] = t}
PrereqsDone == \A j \in 1..(Len(todo) - 1) : tstate[j] = "done"
CpLines(v) == {ln \in {Recipe(v, "copy-files")[n] :
                          n \in 1..Len(Recipe(v, "copy-files"))} : ln.op = "cp"}
\* the four template files are in the project at directory d, as copied
TemplatesIn(f, d) ==
    /\ f[d] # <<>>
    /\ \A ln \in CpLines(variant) :
          /\ ln.b \in DOMAIN f[d][1].files
          /\ f[d][1].files[ln.b] = Content(ln.a)

\* C1: in a run of build, once a process of step k has exited with a failure
\* status, no step after k is ever started and the run ends failed.
C1_StopOnFirstFailure ==
    IsBuild =>
        \A e \in failedAt :
            /\ \A j \in (e[1] + 1)..Len(todo) : tstate[j] = "pending"
            /\ Ended => exit = "fail"

\* C2: a run of build that starts with no $(NAME) in the invocation root nor in
\* PARENT_DIR (the default PARENT_DIR included), with a well-formed fragment and
\* every external tool working, ends with status 0 and leaves the four template
\* files in PARENT_DIR/$(NAME).
C2_BuildSucceeds ==
    (IsBuild /\ Ended /\ fs0[Root] = <<>> /\ fs0[pd] = <<>> /\ ~toolFault
       /\ IsObj(fragment))
    => (exit = "ok" /\ TemplatesIn(fs, pd))

\* the order of section 2: skeleton, installations, formatting, copy, finalize
RankClaimed(t) ==
    CASE t = "create-react-app" -> 1
      [] t \in Installs -> 2
      [] t = "configure-prettier" -> 3
      [] t = "copy-files" -> 4
      [] t = "git-commit" -> 5
      [] t = "build" -> 6

\* the order of the rule: skeleton, formatting, installations, copy, finalize
RankAmended(t) ==
    CASE t = "create-react-app" -> 1
      [] t = "configure-prettier" -> 2
      [] t \in Installs -> 3
      [] t = "copy-files" -> 4
      [] t = "git-commit" -> 5
      [] t = "build" -> 6

StartedAfterSuccess ==
    \A i \in 1..Len(todo) :
        tstate[i] # "pending" => \A j \in 1..(i - 1) : tstate[j] = "done"

\* C3 as stated: the steps of build start in the order skeleton, installations,
\* formatting, copy, finalize, each only after all before it succeeded.
C3_OrderAsClaimed ==
    IsBuild =>
        /\ \A a, b \in 1..Len(startOrder) :
              a < b => RankClaimed(startOrder[a]) <= RankClaimed(startOrder[b])
        /\ StartedAfterSuccess

\* C3 amended: the steps of build start in the order skeleton, formatting (when
\* part of the run), installations, copy, finalize, each only after every recipe
\* line of all steps before it returned status 0.
C3_OrderAmended ==
    IsBuild =>
        /\ \A a, b \in 1..Len(startOrder) :
              a < b => RankAmended(startOrder[a]) <= RankAmended(startOrder[b])
        /\ StartedAfterSuccess

C3_Witness ==
    /\ IsBuild
    /\ \E a, b \in 1..Len(startOrder) :
          /\ a < b
          /\ startOrder[a] = "configure-prettier"
          /\ startOrder[b] \in Installs
    /\ \E i \in Idx("git-commit") : tstate[i] # "pending"

\* C4: when git-commit has completed in a run of build, the repository at
\* PARENT_DIR/$(NAME) has exactly one commit, with the fixed message, whose tree
\* is the content of the project directory.
C4_ExactlyOneCommit ==
    (IsBuild /\ \E i \in Idx("git-commit") : tstate[i] = "done") =>
        /\ fs[pd] # <<>>
        /\ LET g == fs[pd][1].git
           IN  /\ g.init
               /\ Len(g.commits) = 1
               /\ g.commits[1].msg = CommitMessage
               /\ g.commits[1].tree = Tree(fs[pd][1])
        /\ TemplatesIn(fs, pd)

C4_Witness ==
    /\ IsBuild
    /\ \E i \in Idx("git-commit") : tstate[i] = "done"
    /\ fs[pd] # <<>>
    /\ Len(fs[pd][1].git.commits) = 1

\* the file system after all lines of target t, or after its first failing line
RECURSIVE RunFrom(_, _, _, _, _)
RunFrom(v, t, n, f, d) ==
    IF n > Len(Recipe(v, t)) THEN [fs |-> f, st |-> 0]
    ELSE LET r == Exec(v, Recipe(v, t)[n], f, d, fragment, TRUE)
         IN  IF Halts(r.st) THEN [fs |-> r.fs, st |-> r.st]
             ELSE RunFrom(v, t, n + 1, r.fs, d)

\* C5: copy-files run twice in succession leaves what one run leaves, and the
\* second run does not fail: for the runs made, and for the recipe applied
\* twice to every file system reached.
C5_CopyIdempotent ==
    /\ (Ended /\ goal = "copy-files" /\ prev.goal = "copy-files")
          => (prev.exit = "ok" /\ exit = "ok" /\ fs = fs0)
    /\ LET once == RunFrom(variant, "copy-files", 1, fs, pd)
           twice == RunFrom(variant, "copy-files", 1, once.fs, pd)
       IN  once.st = 0 /\ twice.st = 0 /\ twice.fs = once.fs

C5_Witness ==
    /\ Ended /\ goal = "copy-files" /\ prev.goal = "copy-files"
    /\ exit = "ok"
    /\ nruns = 3
    /\ fs[Root] # <<>> /\ IsObj(fs[Root][1].manifest)

\* C6: when jq fails in configure-prettier, the step fails, the hook line and
\* all later steps are not run, and the manifest is as jq read it.
C6_JqFailureStops ==
    \A e \in failedAt :
        e[2] = "jq" =>
            /\ tstate[e[1]] = "failed"
            /\ lineNo[e[1]] = 1
            /\ \A j \in (e[1] + 1)..Len(todo) : tstate[j] = "pending"
            /\ fs[Root] # <<>> /\ fs[Root][1].manifest = jqIn[1].m

\* C7: in a run of build "success" is printed at most once, only after
\* git-commit completed, and a finished run printed it iff every step
\* succeeded; a run in which a process failed ends with a non-zero status and
\* without the line.
C7_ConfirmationOnlyOnSuccess ==
    IsBuild =>
        /\ Len(output) <= 1
        /\ output # <<>> => (output = <<"success">> /\ PrereqsDone)
        /\ Ended =>
              /\ (output = <<"success">>) <=> PrereqsDone
              /\ (output = <<"success">>) <=> (exit = "ok")
              /\ failedAt # {} => (exit = "fail" /\ output = <<>>)

C7_Witness == IsBuild /\ Ended /\ output = <<"success">> /\ exit = "ok"

\* C8: at most one recipe line is executing at any time, at most one step is
\* under way, and every step before it has completed.
C8_OneAtATime ==
    /\ Cardinality(running) <= 1
    /\ Cardinality(InRecipe) <= 1
    /\ \A i \in running : \A j \in 1..(i - 1) : tstate[j] = "done"

C8_Witness ==
    /\ IsBuild
    /\ \E i \in running : i > 2 /\ todo[i] = "copy-files" /\ lineNo[i] > 1

\* the merge has run and jq has succeeded
Merged ==
    /\ Idx("configure-prettier") # {}
    /\ \A i \in Idx("configure-prettier") :
          /\ lineNo[i] > 1
          /\ <<i, "jq">> \notin failedAt
    /\ jqIn # <<>>
    /\ fs[Root] # <<>>

\* r has the keys of m and f, those only in one with its value, those in both
\* with f's value, or, when both values are objects, with their merge
RECURSIVE IsMerge(_, _, _)
IsMerge(r, m, f) ==
    /\ IsObj(r)
    /\ DOMAIN r.f = DOMAIN m.f \cup DOMAIN f.f
    /\ \A key \in DOMAIN r.f :
          IF key \notin DOMAIN f.f THEN r.f[key] = m.f[key]
          ELSE IF key \notin DOMAIN m.f THEN r.f[key] = f.f[key]
          ELSE IF IsObj(m.f[key]) /\ IsObj(f.f[key])
               THEN IsMerge(r.f[key], m.f[key], f.f[key])
               ELSE r.f[key] = f.f[key]

\* C9 as stated: after the merge the manifest has every key of M and of F, a
\* key only in M with M's value, and a key of F with exactly F's value.
C9_RightHandWins ==
    Merged =>
        LET r == fs[Root][1].manifest
            m == jqIn[1].m
            f == jqIn[1].f
        IN  /\ IsObj(r)
            /\ DOMAIN r.f = DOMAIN m.f \cup DOMAIN f.f
            /\ \A key \in DOMAIN r.f :
                  IF key \in DOMAIN f.f THEN r.f[key] = f.f[key]
                  ELSE r.f[key] = m.f[key]

\* C9 amended: a key in both M and F has exactly F's value unless both values
\* are objects, and then the two are merged by the same rule.
C9_RecursiveMerge ==
    Merged => IsMerge(fs[Root][1].manifest, jqIn[1].m, jqIn[1].f)

C9_Witness ==
    /\ Merged
    /\ \E key \in DOMAIN jqIn[1].m.f \cap DOMAIN jqIn[1].f.f :
          /\ IsObj(jqIn[1].m.f[key]) /\ IsObj(jqIn[1].f.f[key])
          /\ fs[Root][1].manifest.f[key] # jqIn[1].f.f[key]
    /\ \E key \in DOMAIN jqIn[1].m.f \cap DOMAIN jqIn[1].f.f :
          /\ ~IsObj(jqIn[1].m.f[key])
          /\ fs[Root][1].manifest.f[key] = jqIn[1].f.f[key]
          /\ jqIn[1].m.f[key] # jqIn[1].f.f[key]

\* every cp line of the recipe comes after a mkdir -p line that makes the
\* directory of its destination
MkdirBeforeCp(v) ==
    LET rec == Recipe(v, "copy-files")
    IN  \A n \in 1..Len(rec) :
           rec[n].op = "cp" =>
              \E k \in 1..(n - 1) :
                 rec[k].op = "mkdir" /\ Parent(rec[n].b) \in Prefixes(rec[k].b)

\* C10: in copy-files every cp follows the mkdir -p of its directory, the
\* directory is there when the cp line is reached, and the step, whatever the
\* project tree before it, succeeds with every destination holding exactly its
\* template (until git-commit moves the project).
C10_EnsureDirThenCopy ==
    /\ MkdirBeforeCp(variant)
    /\ \A i \in Idx("copy-files") :
          LET rec == Recipe(variant, "copy-files")
          IN  /\ tstate[i] # "failed"
              /\ (tstate[i] = "running" /\ rec[lineNo[i]].op = "cp") =>
                    (fs[Root] # <<>> /\ Parent(rec[lineNo[i]].b) \in fs[Root][1].dirs)
              /\ (tstate[i] = "done"
                  /\ \A k \in Idx("git-commit") : tstate[k] = "pending")
                    => TemplatesIn(fs, Root)
    /\ (Ended /\ goal = "copy-files") => exit = "ok"

C10_Witness ==
    /\ Ended /\ goal = "copy-files" /\ exit = "ok"
    /\ fs0[Root] # <<>>
    /\ \E ln \in CpLines(variant) :
          /\ ln.b \in DOMAIN fs0[Root][1].files
          /\ fs0[Root][1].files[ln.b] # Content(ln.a)
    /\ \E ln \in CpLines(variant) : Parent(ln.b) \notin fs0[Root][1].dirs
    /\ TemplatesIn(fs, Root)

====
